---- MODULE Spec2Model ----
(***************************************************************************)
(* Model of modules/s3_fs.py: two pass-through operations that call the    *)
(* get method of an injected filesystem handle and turn some exception     *)
(* kinds into a printed line, and the direct-run block that performs four  *)
(* example transfers.                                                      *)
(*                                                                         *)
(* The handle (fs_obj) is a caller-supplied object.  Its get is modelled   *)
(* as a nondeterministic collaborator: it writes the objects it fetches to *)
(* the local filesystem one at a time and either returns once all of them  *)
(* are written or raises any exception at any point.                       *)
(***************************************************************************)
EXTENDS Integers, Sequences, FiniteSets, TLC

\* Number of calls a library user makes in one behaviour.
MaxCalls == 2

(***************************************************************************)
(* Python values                                                           *)
(***************************************************************************)
None == "None"
True == "True"
False == "False"
NoValue == "NoValue"            \* the call has not returned
NoException == "NoException"
Omitted == "Omitted"            \* argument not passed by the caller

\* Exception kinds the handle's get is taken to raise.
Exceptions == {"PermissionError", "FileNotFoundError", "ConnectionError", "ValueError"}

\* Builtin exception hierarchy (direct base class).
Base(c) ==
    CASE c = "PermissionError" -> "OSError"
      [] c = "FileNotFoundError" -> "OSError"
      [] c = "ConnectionError" -> "OSError"
      [] c = "OSError" -> "Exception"
      [] c = "ValueError" -> "Exception"
      [] OTHER -> "BaseException"

RECURSIVE Mro(_)
Mro(c) == IF c = "BaseException" THEN {c} ELSE {c} \cup Mro(Base(c))

\* isinstance(e, cls): how an except clause matches.
IsInstance(e, cls) == cls \in Mro(e)

(***************************************************************************)
(* Inputs                                                                  *)
(***************************************************************************)
Sources == {"bucket/data", "bucket/readme.txt"}
Dests == {"./data", "./readme.txt"}

MainCalls ==
    << [op |-> "bucket", src |-> "maximerichaudeau1/data", dst |-> "./data",
        recursive |-> Omitted],
       [op |-> "bucket", src |-> "maximerichaudeau1/json", dst |-> "./json",
        recursive |-> Omitted],
       [op |-> "file",
        src |-> "maximerichaudeau1/cross_entropy_weighted10_batch64_32_16.pth",
        dst |-> "./cross_entropy_weighted10_batch64_32_16.pth",
        recursive |-> Omitted],
       [op |-> "file", src |-> "maximerichaudeau1/test.txt", dst |-> "./test.txt",
        recursive |-> Omitted] >>

\* Calls a library user can make: the file operation has no recursive parameter.
UserCalls ==
    { [op |-> "bucket", src |-> s, dst |-> d, recursive |-> r] :
        s \in Sources, d \in Dests, r \in {True, False, Omitted} }
    \cup
    { [op |-> "file", src |-> s, dst |-> d, recursive |-> Omitted] :
        s \in Sources, d \in Dests }

(***************************************************************************)
(* The remote store and the local filesystem, as the handle sees them      *)
(***************************************************************************)
\* Remote paths that are trees of objects; every other path is one object.
Trees == {"bucket/data", "maximerichaudeau1/data", "maximerichaudeau1/json"}

\* Keys of the objects under a remote path, relative to it.
RemoteKeys(rpath) == IF rpath \in Trees THEN {"x", "sub/y"} ELSE {""}

\* The bytes of one remote object (the remote store does not change).
Content(rpath, key) == IF key = "" THEN "bytes of " \o rpath
                       ELSE "bytes of " \o rpath \o "/" \o key

\* Where get puts one object.
LocalPath(lpath, key) == IF key = "" THEN lpath ELSE lpath \o "/" \o key

\* get's own default for recursive when the keyword is not passed.
HandleRecursive(kw) == IF kw = Omitted THEN FALSE ELSE kw = True

\* The objects one get call fetches.
ToFetch(args) ==
    IF args.rpath \in Trees
    THEN (IF HandleRecursive(args.recursive) THEN RemoteKeys(args.rpath) ELSE {})
    ELSE RemoteKeys(args.rpath)

\* A local filesystem is a set of <<path, content>> with one entry per path.
WriteFile(fs, path, content) ==
    {f \in fs : f[1] # path} \cup {<<path, content>>}

\* The entries of fs at or under lpath (used in the properties).
FilesUnder(fs, lpath) ==
    {f \in fs : \E k \in {"", "x", "sub/y"} : f[1] = LocalPath(lpath, k)}

(***************************************************************************)
(* The module's own pure parts                                             *)
(***************************************************************************)
\* Parameter default recursive=True of import_bucket_from_ssp_cloud.
BindRecursiveDefaultFalse(r) == IF r = Omitted THEN False ELSE r

BindRecursive(r) == IF r = Omitted THEN True ELSE r

\* The arguments of the single fs_obj.get call of each operation.
GetArgs(c) ==
    IF c.op = "bucket"
    THEN [rpath |-> c.src, lpath |-> c.dst, recursive |-> BindRecursive(c.recursive)]
    ELSE [rpath |-> c.src, lpath |-> c.dst, recursive |-> Omitted]

\* The except clauses of each operation, in source order.
ClausesBucketCatchesNotFound(op) == <<"PermissionError", "FileNotFoundError">>

ClausesFileMissesNotFound(op) == <<"PermissionError">>

ClausesCatchOSError(op) ==
    IF op = "bucket" THEN <<"OSError">> ELSE <<"OSError", "FileNotFoundError">>

Clauses(op) ==
    IF op = "bucket" THEN <<"PermissionError">>
    ELSE <<"PermissionError", "FileNotFoundError">>

\* The position of the first except clause that matches e, 0 when none does.
FirstMatch(op, e) ==
    LET hits == {i \in 1..Len(Clauses(op)) : IsInstance(e, Clauses(op)[i])}
    IN  IF hits = {} THEN 0 ELSE CHOOSE i \in hits : \A j \in hits : i <= j

SuccessMsgNoDestination(op, s, d) ==
    IF op = "bucket" THEN "The bucket " \o s \o " has been downloaded"
    ELSE "The file " \o s \o " has been downloaded"

SuccessMsg(op, s, d) ==
    IF op = "bucket" THEN "The bucket " \o s \o " has been downloaded to " \o d
    ELSE "The file " \o s \o " has been downloaded to " \o d

PermissionMsg(s) ==
    "You tried to import " \o s \o " but you do not have the right permission"
    \o " to do so !"

NotFoundMsg(s) == "The file " \o s \o " does not exist"

(***************************************************************************)
(* State                                                                   *)
(***************************************************************************)
VARIABLES
    pc,         \* "idle" | "get" | "got" | "except" | "returned" | "raised"
    call,       \* the arguments of the operation being run
    getCalls,   \* the fs_obj.get invocations made by the current call
    getResult,  \* "running" | "returned" | the exception get raised
    written,    \* keys get has written during the current call
    out,        \* lines printed by the current call
    ret,        \* the call's return value
    escaped,    \* the exception that left the call, or NoException
    local,      \* the local filesystem
    local0,     \* the local filesystem when the current call was entered
    prev,       \* <<>> or the one-element sequence holding the previous finished call
    ncalls,     \* finished calls
    mainPc,     \* direct run: 0 = building the handle, i = i-th transfer next, 5 = end
    mainExit,   \* "imported" | "running" | "exit0" | "traceback"
    env         \* whether AWS_S3_ENDPOINT is set

vars == <<pc, call, getCalls, getResult, written, out, ret, escaped, local, local0,
          prev, ncalls, mainPc, mainExit, env>>

NoCall == [op |-> "none", src |-> "", dst |-> "", recursive |-> Omitted]

InitCommon ==
    /\ pc = "idle"
    /\ call = NoCall
    /\ getCalls = <<>>
    /\ getResult = "running"
    /\ written = {}
    /\ out = <<>>
    /\ ret = NoValue
    /\ escaped = NoException
    /\ local = {}
    /\ local0 = {}
    /\ prev = <<>>
    /\ ncalls = 0

\* The module imported by a caller: the __main__ block does not run.
Init ==
    /\ InitCommon
    /\ mainPc = 0
    /\ mainExit = "imported"
    /\ env \in BOOLEAN

\* The module run directly.
InitMain ==
    /\ InitCommon
    /\ mainPc = 0
    /\ mainExit = "running"
    /\ env \in BOOLEAN

(***************************************************************************)
(* The operations                                                          *)
(***************************************************************************)
\* Entry of either operation up to and including the call of fs_obj.get.
Enter(c) ==
    /\ pc = "idle"
    /\ pc' = "get"
    /\ call' = c
    /\ getCalls' = <<GetArgs(c)>>
    /\ getResult' = "running"
    /\ written' = {}
    /\ out' = <<>>
    /\ ret' = NoValue
    /\ escaped' = NoException
    /\ local0' = local
    /\ UNCHANGED <<local, prev, ncalls>>

\* fs_obj.get writes one more of the objects it fetches.
GetWrite ==
    /\ pc = "get"
    /\ \E k \in ToFetch(getCalls[Len(getCalls)]) \ written :
         /\ local' = WriteFile(local, LocalPath(getCalls[Len(getCalls)].lpath, k),
                               Content(getCalls[Len(getCalls)].rpath, k))
         /\ written' = written \cup {k}
    /\ UNCHANGED <<pc, call, getCalls, getResult, out, ret, escaped, local0, prev,
                   ncalls, mainPc, mainExit, env>>

\* fs_obj.get returns: everything it fetches is written.
GetReturn ==
    /\ pc = "get"
    /\ written = ToFetch(getCalls[Len(getCalls)])
    /\ pc' = "got"
    /\ getResult' = "returned"
    /\ UNCHANGED <<call, getCalls, written, out, ret, escaped, local, local0, prev,
                   ncalls, mainPc, mainExit, env>>

\* fs_obj.get raises, possibly after writing part of what it fetches.
GetRaise ==
    /\ pc = "get"
    /\ \E e \in Exceptions : getResult' = e
    /\ pc' = "except"
    /\ UNCHANGED <<call, getCalls, written, out, ret, escaped, local, local0, prev,
                   ncalls, mainPc, mainExit, env>>

\* The print after get and the implicit return None.
OnReturnSkipsUnchanged ==
    /\ pc = "got"
    /\ out' = Append(out, IF local = local0 THEN "Nothing to download"
                          ELSE SuccessMsg(call.op, call.src, call.dst))
    /\ ret' = None
    /\ pc' = "returned"
    /\ UNCHANGED <<call, getCalls, getResult, written, escaped, local, local0, prev,
                   ncalls, mainPc, mainExit, env>>

OnReturn ==
    /\ pc = "got"
    /\ out' = Append(out, SuccessMsg(call.op, call.src, call.dst))
    /\ ret' = None
    /\ pc' = "returned"
    /\ UNCHANGED <<call, getCalls, getResult, written, escaped, local, local0, prev,
                   ncalls, mainPc, mainExit, env>>

\* The first except clause (except PermissionError): print the warning, fall
\* off the end.
ExceptPermissionReraises ==
    /\ pc = "except"
    /\ FirstMatch(call.op, getResult) = 1
    /\ out' = Append(out, PermissionMsg(call.src))
    /\ escaped' = getResult
    /\ pc' = "raised"
    /\ UNCHANGED <<call, getCalls, getResult, written, ret, local, local0, prev,
                   ncalls, mainPc, mainExit, env>>

ExceptPermissionCleansUp ==
    /\ pc = "except"
    /\ FirstMatch(call.op, getResult) = 1
    /\ out' = Append(out, PermissionMsg(call.src))
    /\ ret' = None
    /\ pc' = "returned"
    /\ local' = local \ FilesUnder(local, call.dst)
    /\ UNCHANGED <<call, getCalls, getResult, written, escaped, local0, prev,
                   ncalls, mainPc, mainExit, env>>

ExceptPermission ==
    /\ pc = "except"
    /\ FirstMatch(call.op, getResult) = 1
    /\ out' = Append(out, PermissionMsg(call.src))
    /\ ret' = None
    /\ pc' = "returned"
    /\ UNCHANGED <<call, getCalls, getResult, written, escaped, local, local0, prev,
                   ncalls, mainPc, mainExit, env>>

\* The second except clause (except FileNotFoundError, in
\* import_file_from_ssp_cloud only).
ExceptNotFoundReturnsFalse ==
    /\ pc = "except"
    /\ FirstMatch(call.op, getResult) = 2
    /\ out' = Append(out, NotFoundMsg(call.src))
    /\ ret' = False
    /\ pc' = "returned"
    /\ UNCHANGED <<call, getCalls, getResult, written, escaped, local, local0, prev,
                   ncalls, mainPc, mainExit, env>>

ExceptNotFound ==
    /\ pc = "except"
    /\ FirstMatch(call.op, getResult) = 2
    /\ out' = Append(out, NotFoundMsg(call.src))
    /\ ret' = None
    /\ pc' = "returned"
    /\ UNCHANGED <<call, getCalls, getResult, written, escaped, local, local0, prev,
                   ncalls, mainPc, mainExit, env>>

\* No except clause matches: the exception leaves the operation.
Propagate ==
    /\ pc = "except"
    /\ FirstMatch(call.op, getResult) = 0
    /\ escaped' = getResult
    /\ pc' = "raised"
    /\ UNCHANGED <<call, getCalls, getResult, written, out, ret, local, local0, prev,
                   ncalls, mainPc, mainExit, env>>

Operation == GetWrite \/ GetReturn \/ GetRaise \/ OnReturn \/ ExceptPermission
             \/ ExceptNotFound \/ Propagate

\* What the caller has seen of the call that just finished.
Finished ==
    [call |-> call, getCalls |-> getCalls, getResult |-> getResult, out |-> out,
     ret |-> ret, escaped |-> escaped, local |-> local]

(***************************************************************************)
(* A library user                                                          *)
(***************************************************************************)
UserCall ==
    /\ mainExit = "imported"
    /\ ncalls < MaxCalls
    /\ \E c \in UserCalls : Enter(c)
    /\ UNCHANGED <<mainPc, mainExit, env>>

\* The caller takes the result (or catches what escaped) and goes on.
UserNext ==
    /\ mainExit = "imported"
    /\ pc \in {"returned", "raised"}
    /\ prev' = <<Finished>>
    /\ ncalls' = ncalls + 1
    /\ pc' = "idle"
    /\ UNCHANGED <<call, getCalls, getResult, written, out, ret, escaped, local,
                   local0, mainPc, mainExit, env>>

Next == UserCall \/ UserNext \/ Operation

Spec == Init /\ [][Next]_vars

(***************************************************************************)
(* The direct-run block                                                    *)
(***************************************************************************)
\* os.environ["AWS_S3_ENDPOINT"] and the construction of the handle.
MainStart ==
    /\ mainExit = "running"
    /\ mainPc = 0
    /\ IF env
       THEN mainPc' = 1 /\ UNCHANGED <<mainExit, escaped>>
       ELSE mainExit' = "traceback" /\ escaped' = "KeyError" /\ UNCHANGED mainPc
    /\ UNCHANGED <<pc, call, getCalls, getResult, written, out, ret, local, local0,
                   prev, ncalls, env>>

\* The next of the four example transfers.
MainCallSkipsOnWarning ==
    /\ mainExit = "running"
    /\ mainPc \in 1..Len(MainCalls)
    /\ IF prev = <<>> THEN TRUE ELSE prev[1].getResult = "returned"
    /\ Enter(MainCalls[mainPc])
    /\ UNCHANGED <<mainPc, mainExit, env>>

MainCall ==
    /\ mainExit = "running"
    /\ mainPc \in 1..Len(MainCalls)
    /\ Enter(MainCalls[mainPc])
    /\ UNCHANGED <<mainPc, mainExit, env>>

\* A transfer returned: on to the next statement, or the end of the script.
MainReturn ==
    /\ mainExit = "running"
    /\ pc = "returned"
    /\ prev' = <<Finished>>
    /\ ncalls' = ncalls + 1
    /\ pc' = "idle"
    /\ mainPc' = mainPc + 1
    /\ mainExit' = IF mainPc = Len(MainCalls) THEN "exit0" ELSE "running"
    /\ UNCHANGED <<call, getCalls, getResult, written, out, ret, escaped, local,
                   local0, env>>

\* An exception left a transfer: nothing catches it, the script ends.
MainCrash ==
    /\ mainExit = "running"
    /\ pc = "raised"
    /\ prev' = <<Finished>>
    /\ ncalls' = ncalls + 1
    /\ pc' = "idle"
    /\ mainExit' = "traceback"
    /\ UNCHANGED <<call, getCalls, getResult, written, out, ret, escaped, local,
                   local0, mainPc, env>>

NextMain == MainStart \/ MainCall \/ MainReturn \/ MainCrash \/ Operation

SpecMain == InitMain /\ [][NextMain]_vars

(***************************************************************************)
(* Properties                                                              *)
(***************************************************************************)
\* The current call has finished and the caller has not yet gone on.
CallEnded == pc \in {"returned", "raised"}

PermissionWarning(s) ==
    "You tried to import " \o s \o " but you do not have the right permission to do so !"

C3_BucketNotFoundPropagates ==
    (pc # "idle" /\ call.op = "bucket" /\ getResult = "FileNotFoundError") =>
        /\ pc \in {"except", "raised"}
        /\ out = <<>>
        /\ ret = NoValue
        /\ pc = "raised" => escaped = "FileNotFoundError"

C3_Witness ==
    /\ pc = "raised" /\ call.op = "bucket" /\ getResult = "FileNotFoundError"
    /\ escaped = "FileNotFoundError" /\ out = <<>>
    /\ prev # <<>> /\ prev[1].call.op = "file"
    /\ prev[1].getResult = "FileNotFoundError" /\ prev[1].escaped = NoException

\* C4: in both operations, nothing is printed while get has not returned; when
\* get returns, the call returns None, raises nothing, and prints exactly the
\* success line naming the caller's source and destination.
C4_SuccessIsReported ==
    /\ getResult = "running" => out = <<>>
    /\ (pc # "idle" /\ getResult = "returned") =>
         /\ pc \in {"got", "returned"}
         /\ escaped = NoException
         /\ pc = "got" => out = <<>> /\ ret = NoValue
         /\ pc = "returned" =>
              /\ ret = None
              /\ out = <<(IF call.op = "bucket" THEN "The bucket " ELSE "The file ")
                         \o call.src \o " has been downloaded to " \o call.dst>>

C4_Witness ==
    /\ pc = "returned" /\ call.op = "file" /\ getResult = "returned"
    /\ out = <<"The file bucket/readme.txt has been downloaded to ./readme.txt">>
    /\ <<"./readme.txt", "bytes of bucket/readme.txt">> \in local
    /\ prev # <<>> /\ prev[1].getResult = "returned"
    /\ prev[1].out = <<"The bucket bucket/data has been downloaded to ./data">>

\* C5: in both operations, an exception of get that is neither a
\* PermissionError nor a FileNotFoundError leaves the operation and nothing is
\* printed.
C5_OtherFailuresPropagate ==
    (pc # "idle" /\ getResult \in {"ConnectionError", "ValueError"}) =>
        /\ pc \in {"except", "raised"}
        /\ out = <<>>
        /\ ret = NoValue
        /\ pc = "raised" => escaped = getResult

C5_Witness ==
    /\ pc = "raised" /\ call.op = "file" /\ escaped = "ConnectionError" /\ out = <<>>
    /\ prev # <<>> /\ prev[1].call.op = "bucket" /\ prev[1].escaped = "ValueError"
    /\ prev[1].out = <<>>

\* The current call ended with a failure its operation handles.
HandledFailure ==
    /\ pc = "returned"
    /\ \/ getResult = "PermissionError"
       \/ call.op = "file" /\ getResult = "FileNotFoundError"

\* The local paths get has written during the current call.
WrittenPaths == {LocalPath(call.dst, k) : k \in written}

\* C6 as stated: after a handled failure no file at or under the destination
\* was created or modified by the call.
C6_DestinationUnchanged ==
    HandledFailure => FilesUnder(local, call.dst) = FilesUnder(local0, call.dst)

\* C6 (amended): after a handled failure every local path that get did not
\* write during the call is as it was when the call was entered (the whole
\* filesystem when get wrote nothing), and what get wrote before raising is
\* still there: the operation itself neither writes nor removes a file.
C6_OnlyGetTouchesDestination ==
    HandledFailure =>
        /\ {f \in local : f[1] \notin WrittenPaths}
             = {f \in local0 : f[1] \notin WrittenPaths}
        /\ \A k \in written :
             <<LocalPath(call.dst, k), Content(call.src, k)>> \in local

C6_Witness ==
    /\ HandledFailure /\ call.op = "bucket" /\ written = {"x"}
    /\ local0 = {<<"./data/sub/y", "bytes of bucket/data/sub/y">>}
    /\ local = local0 \cup {<<"./data/x", "bytes of bucket/data/x">>}

\* C7: a successful file copy that follows a successful file copy with the
\* same source and destination leaves the local filesystem as the first left
\* it, prints the same line and returns the same value.
C7_FileCopyIdempotent ==
    (/\ pc = "returned" /\ call.op = "file" /\ getResult = "returned"
     /\ prev # <<>> /\ prev[1].call = call /\ prev[1].getResult = "returned")
    => /\ local = prev[1].local
       /\ out = prev[1].out
       /\ ret = prev[1].ret
       /\ getCalls = prev[1].getCalls

C7_Witness ==
    /\ pc = "returned" /\ call.op = "file" /\ getResult = "returned"
    /\ call.src = "bucket/readme.txt"
    /\ prev # <<>> /\ prev[1].call = call /\ prev[1].getResult = "returned"
    /\ <<call.dst, "bytes of bucket/readme.txt">> \in local

\* A finished file copy whose get returned or raised a handled kind.
HandledOutcome(r) ==
    /\ r.call.op = "file"
    /\ r.getResult \in {"returned", "PermissionError", "FileNotFoundError"}

C9_OneGetWithCallersArguments ==
    pc # "idle" =>
        /\ Len(getCalls) = 1
        /\ getCalls[1].rpath = call.src
        /\ getCalls[1].lpath = call.dst
        /\ call.op = "bucket" =>
             getCalls[1].recursive
               = (IF call.recursive = Omitted THEN True ELSE call.recursive)
        /\ call.op = "file" => getCalls[1].recursive = Omitted

C9_Witness ==
    /\ pc = "returned" /\ call.op = "bucket" /\ call.recursive = Omitted
    /\ getResult = "PermissionError"
    /\ getCalls = <<[rpath |-> "bucket/data", lpath |-> "./data", recursive |-> True]>>
    /\ prev # <<>> /\ prev[1].call.op = "file" /\ prev[1].call.dst = "./readme.txt"
    /\ prev[1].getCalls
         = <<[rpath |-> "bucket/readme.txt", lpath |-> "./readme.txt",
              recursive |-> Omitted]>>

\* A finished transfer that ended with a failure its operation handles.
WarnedOnly(r) ==
    \/ r.getResult = "PermissionError"
    \/ r.call.op = "file" /\ r.getResult = "FileNotFoundError"

====
